---- MODULE Spec2Model ----
(***************************************************************************)
(* Model of influxdbclient.Client (src/influxdbclient/influxdb_client.go): *)
(* the aggregate map metricPoints, the two cumulative counters, and the    *)
(* operations AddMetric, AlertSlowConsumerError and PostMetrics with the   *)
(* serialization done by formatMetrics.                                    *)
(*                                                                         *)
(* Representation choices:                                                 *)
(*  - a float64 Value is kept as an integer number of halves (7 is 3.5),   *)
(*    which is exact for the values used here;                             *)
(*  - an int64 number of nanoseconds is kept as [s, ns], meaning           *)
(*    s * Second + ns with 0 <= ns < Second, because the nanosecond values *)
(*    exceed the 32-bit integers of the model checker;                     *)
(*  - the request body is kept as the bag of the lines formatMetrics       *)
(*    writes: Go leaves the iteration order of a map unspecified, so the   *)
(*    body is known up to the order of its lines;                          *)
(*  - time.Now().Unix() is a read of a non-decreasing clock.               *)
(***************************************************************************)
EXTENDS Integers, Sequences, FiniteSets, Bags, TLC

VARIABLES
    metricPoints,           \* Client.metricPoints: map[metricKey]metricValue
    totalMessagesReceived,  \* Client.totalMessagesReceived
    totalMetricsSent,       \* Client.totalMetricsSent
    prefix,                 \* Client.prefix
    deployment,             \* Client.deployment
    ip,                     \* Client.ip
    now,                    \* the last value read from time.Now().Unix()
    panicked,               \* the process was aborted by a panic
    call,                   \* the most recent call: its inputs and outputs
    hist,                   \* what was called so far (history, not program state)
    post                    \* the call of PostMetrics in progress: its position
                            \* and its local variables

vars == <<metricPoints, totalMessagesReceived, totalMetricsSent, prefix,
          deployment, ip, now, panicked, call, hist, post>>

---------------------------------------------------------------------------
(* Bounds of the model. *)

\* AddMetric is called at most MaxMsgs times.
MaxMsgs == 2
\* PostMetrics is called while totalMetricsSent is below MaxSent.
MaxSent == 6
\* The values time.Now().Unix() takes.
Times == {1000, 1001}

\* time.Second, in nanoseconds.
Second == 1000000000

---------------------------------------------------------------------------
(* events.Envelope and its generated getters (sonde-go).                   *)

ValueMetric == "ValueMetric"
CounterEvent == "CounterEvent"
HttpStartStop == "HttpStartStop"
\* The zero value of Envelope_EventType, which names no event type.
ZeroEventType == "EventType(0)"

\* A nested payload pointer that is nil.
NilPayload == [nil |-> TRUE, name |-> "", value |-> 0]

Payload(name, value) == [nil |-> FALSE, name |-> name, value |-> value]

\* The getters generated for a proto2 message are nil-safe: the getter of a
\* nil message returns the zero value of the field.
GetValueMetric(envelope) == envelope.valueMetric

GetCounterEvent(envelope) == envelope.counterEvent

GetName(payload) == IF payload.nil THEN "" ELSE payload.name

\* ValueMetric.GetValue(): a float64, in halves.
GetValue(payload) == IF payload.nil THEN 0 ELSE payload.value

\* CounterEvent.GetTotal(): a uint64.
GetTotal(payload) == IF payload.nil THEN 0 ELSE payload.value

\* float64(v) of an unsigned integer v, in halves.
Float64(v) == 2 * v

---------------------------------------------------------------------------
(* The envelopes the model ingests.                                        *)

E0 ==
    [eventType |-> ValueMetric, origin |-> "o", deployment |-> "prod",
     job |-> "x", index |-> "0", ip |-> "1.2.3.4",
     timestamp |-> [s |-> 1000, ns |-> 999999999],
     valueMetric |-> Payload("m", 7), counterEvent |-> NilPayload]

\* The same identity as E0, later and with another value.
E1 == [E0 EXCEPT !.timestamp = [s |-> 1002, ns |-> 5],
                 !.valueMetric = Payload("m", 4)]

\* A counter event of the same name and tags as E0.
ECounter ==
    [E0 EXCEPT !.eventType = CounterEvent, !.valueMetric = NilPayload,
               !.counterEvent = Payload("m", 12)]

\* A chain of envelopes, each differing from the one before it in one
\* identity field: E0, then without job, index, ip and deployment.
EJob == [E0 EXCEPT !.job = ""]
EJobIndex == [EJob EXCEPT !.index = ""]
EJobIndexIp == [EJobIndex EXCEPT !.ip = ""]

\* An envelope with no deployment, job, index or ip.
EBare == [EJobIndexIp EXCEPT !.deployment = ""]

\* Envelopes of kinds AddMetric does not aggregate.
EHttp ==
    [E0 EXCEPT !.eventType = HttpStartStop, !.valueMetric = NilPayload]

\* A ValueMetric and a CounterEvent envelope without their payload. The name
\* of ENoValue is the one identity field in which it differs from E0.
ENoValue == [E0 EXCEPT !.valueMetric = NilPayload]
ENoCounter == [ECounter EXCEPT !.counterEvent = NilPayload]

Envelopes ==
    {E0, E1, ECounter, EJob, EJobIndex, EJobIndexIp, EBare, EHttp, ENoValue,
     ENoCounter}

\* The value of call.env for a call that takes no envelope.
NoEnvelope ==
    [eventType |-> ZeroEventType, origin |-> "", deployment |-> "",
     job |-> "", index |-> "", ip |-> "",
     timestamp |-> [s |-> 0, ns |-> 0],
     valueMetric |-> NilPayload, counterEvent |-> NilPayload]

---------------------------------------------------------------------------
(* strconv                                                                 *)

DecimalDigits == <<"0", "1", "2", "3", "4", "5", "6", "7", "8", "9">>

Digit(d) == DecimalDigits[d + 1]

RECURSIVE Digits(_)
\* The decimal digits of n >= 0.
Digits(n) == IF n < 10 THEN Digit(n) ELSE Digits(n \div 10) \o Digit(n % 10)

ZeroStrings ==
    <<"", "0", "00", "000", "0000", "00000", "000000", "0000000", "00000000",
      "000000000">>

\* k zeros, for 0 <= k <= 9.
Zeros(k) == ZeroStrings[k + 1]

\* The nine decimal digits of 0 <= n < Second.
Pad9(n) == Zeros(9 - Len(Digits(n))) \o Digits(n)

\* strconv.FormatInt(v, 10) of v = t.s * Second + t.ns.
FormatInt(t) ==
    IF t.s > 0 THEN Digits(t.s) \o Pad9(t.ns)
    ELSE IF t.s = 0 THEN Digits(t.ns)
    ELSE IF t.ns = 0 THEN "-" \o Digits(-t.s) \o Pad9(0)
    ELSE IF t.s = -1 THEN "-" \o Digits(Second - t.ns)
    ELSE "-" \o Digits(-t.s - 1) \o Pad9(Second - t.ns)

\* strconv.FormatFloat(v, 'f', -1, 64) of v given in halves: the shortest
\* decimal that reads back as v, without exponent.
FormatFloat(v) ==
    LET a == IF v < 0 THEN -v ELSE v
    IN  (IF v < 0 THEN "-" ELSE "") \o Digits(a \div 2)
            \o (IF a % 2 = 1 THEN ".5" ELSE "")

---------------------------------------------------------------------------
(* Helpers of the client.                                                  *)

\* appendTagIfNotEmpty appending the tag of an empty value too.
appendTagIfNotEmpty_AppendsEmpty(tags, key, value) ==
    Append(tags, key \o "=" \o value)

\* fmt.Sprintf("%s=%s", key, value), appended when value is not empty.
appendTagIfNotEmpty(tags, key, value) ==
    IF value # "" THEN Append(tags, key \o "=" \o value) ELSE tags

getTags(envelope) ==
    LET t1 == appendTagIfNotEmpty(<<>>, "deployment", envelope.deployment)
        t2 == appendTagIfNotEmpty(t1, "job", envelope.job)
        t3 == appendTagIfNotEmpty(t2, "index", envelope.index)
    IN  appendTagIfNotEmpty(t3, "ip", envelope.ip)

\* The result of a function that may panic.
Returns(v) == [panic |-> FALSE, val |-> v]
Panics == [panic |-> TRUE, val |-> "Unknown event type"]

\* getName panicking when the payload of the envelope's kind is missing.
getName_PanicsWithoutPayload(envelope) ==
    CASE envelope.eventType = ValueMetric /\ ~GetValueMetric(envelope).nil ->
            Returns(envelope.origin \o "." \o GetName(GetValueMetric(envelope)))
      [] envelope.eventType = CounterEvent /\ ~GetCounterEvent(envelope).nil ->
            Returns(envelope.origin \o "." \o GetName(GetCounterEvent(envelope)))
      [] OTHER -> Panics

getName(envelope) ==
    CASE envelope.eventType = ValueMetric ->
            Returns(envelope.origin \o "." \o GetName(GetValueMetric(envelope)))
      [] envelope.eventType = CounterEvent ->
            Returns(envelope.origin \o "." \o GetName(GetCounterEvent(envelope)))
      [] OTHER -> Panics

getValue(envelope) ==
    CASE envelope.eventType = ValueMetric ->
            Returns(GetValue(GetValueMetric(envelope)))
      [] envelope.eventType = CounterEvent ->
            Returns(Float64(GetTotal(GetCounterEvent(envelope))))
      [] OTHER -> Panics

\* envelope.GetTimestamp() / int64(time.Second): Go's division truncates
\* toward zero.
TimestampSeconds(t) == IF t.s < 0 /\ t.ns > 0 THEN t.s + 1 ELSE t.s

\* The zero metricValue, which a map lookup of a missing key returns.
ZeroValue == [tags |-> <<>>, points |-> <<>>]

Lookup(m, key) == IF key \in DOMAIN m THEN m[key] ELSE ZeroValue

\* m[key] = value
Store(m, key, value) ==
    [k \in DOMAIN m \cup {key} |-> IF k = key THEN value ELSE m[k]]

EmptyMap == [k \in {} |-> ZeroValue]

metricKey(eventType, name, dep, job, index, addr) ==
    [eventType |-> eventType, name |-> name, deployment |-> dep,
     job |-> job, index |-> index, ip |-> addr]

\* The key addInternalMetric and containsSlowConsumerAlert build.
InternalKey(name) == metricKey(ZeroEventType, name, deployment, "", "", ip)

\* addInternalMetric appending its point to those the entry holds.
addInternalMetric_AppendsPoint(m, name, value, t) ==
    Store(m, InternalKey(name),
          [tags |-> <<"ip=" \o ip, "deployment=" \o deployment>>,
           points |-> Append(Lookup(m, InternalKey(name)).points,
                             [Timestamp |-> t, Value |-> Float64(value)])])

\* The map after addInternalMetric(name, value) called at time t.
addInternalMetric(m, name, value, t) ==
    Store(m, InternalKey(name),
          [tags |-> <<"ip=" \o ip, "deployment=" \o deployment>>,
           points |-> <<[Timestamp |-> t, Value |-> Float64(value)]>>])

containsSlowConsumerAlert(m) == InternalKey("slowConsumerAlert") \in DOMAIN m

\* populateInternalMetrics adding each counter only when the map has no
\* entry for it, as it does for slowConsumerAlert.
populateInternalMetrics_KeepsCounters(m, t1, t2, t3) ==
    LET m1 == IF InternalKey("totalMessagesReceived") \in DOMAIN m THEN m
              ELSE addInternalMetric(m, "totalMessagesReceived",
                                     totalMessagesReceived, t1)
        m2 == IF InternalKey("totalMetricsSent") \in DOMAIN m1 THEN m1
              ELSE addInternalMetric(m1, "totalMetricsSent", totalMetricsSent, t2)
    IN  IF ~containsSlowConsumerAlert(m2)
        THEN addInternalMetric(m2, "slowConsumerAlert", 0, t3)
        ELSE m2

\* populateInternalMetrics adding the 0 of slowConsumerAlert unconditionally.
populateInternalMetrics_AlwaysDefault(m, t1, t2, t3) ==
    LET m1 == addInternalMetric(m, "totalMessagesReceived",
                                totalMessagesReceived, t1)
        m2 == addInternalMetric(m1, "totalMetricsSent", totalMetricsSent, t2)
    IN  addInternalMetric(m2, "slowConsumerAlert", 0, t3)

\* The map after populateInternalMetrics, whose three reads of the clock
\* give t1, t2 and t3.
populateInternalMetrics(m, t1, t2, t3) ==
    LET m1 == addInternalMetric(m, "totalMessagesReceived",
                                totalMessagesReceived, t1)
        m2 == addInternalMetric(m1, "totalMetricsSent", totalMetricsSent, t2)
    IN  IF ~containsSlowConsumerAlert(m2)
        THEN addInternalMetric(m2, "slowConsumerAlert", 0, t3)
        ELSE m2

---------------------------------------------------------------------------
(* Serialization.                                                          *)

RECURSIVE formatTags(_)
formatTags(tags) ==
    IF Len(tags) = 0 THEN ""
    ELSE IF Len(tags) = 1 THEN tags[1]
    ELSE formatTags(SubSeq(tags, 1, Len(tags) - 1)) \o "," \o tags[Len(tags)]

RECURSIVE formatValues(_)
formatValues(points) ==
    IF Len(points) = 0 THEN ""
    ELSE IF Len(points) = 1 THEN "value=" \o FormatFloat(points[1].Value)
    ELSE formatValues(SubSeq(points, 1, Len(points) - 1)) \o ","
            \o "value=" \o FormatFloat(points[Len(points)].Value)

\* seconds * 1000 * 1000 * 1000
ToNanoseconds(seconds) == [s |-> seconds, ns |-> 0]

\* formatTimestamp taking the timestamp of the last point.
formatTimestamp_OfLastPoint(points, t) ==
    IF Len(points) > 0 THEN FormatInt(ToNanoseconds(points[Len(points)].Timestamp))
    ELSE FormatInt(ToNanoseconds(t))

\* t is what time.Now().Unix() gives when the entry has no point.
formatTimestamp(points, t) ==
    IF Len(points) > 0 THEN FormatInt(ToNanoseconds(points[1].Timestamp))
    ELSE FormatInt(ToNanoseconds(t))

\* The loop of formatMetrics writing the comma only before a tag.
FormatLine_CommaOnlyBeforeTags(pfx, key, mVal, t) ==
    pfx \o key.name \o (IF Len(mVal.tags) > 0 THEN "," ELSE "")
        \o formatTags(mVal.tags) \o " "
        \o formatValues(mVal.points) \o " " \o formatTimestamp(mVal.points, t)
        \o "\n"

\* What one iteration of the loop of formatMetrics writes to the buffer.
FormatLine(pfx, key, mVal, t) ==
    pfx \o key.name \o "," \o formatTags(mVal.tags) \o " "
        \o formatValues(mVal.points) \o " " \o formatTimestamp(mVal.points, t)
        \o "\n"

RECURSIVE BagOfLines(_, _, _, _)
BagOfLines(pfx, m, keys, t) ==
    IF keys = {} THEN EmptyBag
    ELSE LET k == CHOOSE x \in keys : TRUE
         IN  SetToBag({FormatLine(pfx, k, m[k], t)})
                (+) BagOfLines(pfx, m, keys \ {k}, t)

\* formatTimestamp reads the clock only for an entry that has no point.
ReadsClock(m) == \E k \in DOMAIN m : Len(m[k].points) = 0

RECURSIVE CountPoints(_, _)
CountPoints(m, keys) ==
    IF keys = {} THEN 0
    ELSE LET k == CHOOSE x \in keys : TRUE
         IN  Len(m[k].points) + CountPoints(m, keys \ {k})

\* formatMetrics counting the points written instead of the entries.
formatMetrics_CountsPoints(pfx, m, t) ==
    [body |-> BagOfLines(pfx, m, DOMAIN m, t), count |-> CountPoints(m, DOMAIN m),
     wallClock |-> ReadsClock(m)]

\* The buffer and the count formatMetrics returns, and whether formatTimestamp
\* read the clock on the way.
formatMetrics(pfx, m, t) ==
    [body |-> BagOfLines(pfx, m, DOMAIN m, t), count |-> Cardinality(DOMAIN m),
     wallClock |-> ReadsClock(m)]

---------------------------------------------------------------------------
(* The state machine.                                                      *)

NoResponse == [err |-> FALSE, StatusCode |-> 0]

\* What http.DefaultClient.Do returns: an error, or a response.
Responses ==
    {[err |-> TRUE, StatusCode |-> 0]}
        \cup {[err |-> FALSE, StatusCode |-> c] : c \in {199, 200, 299, 300}}

\* The values time.Now().Unix() can give: the clock does not go back.
Clock == {t \in Times : t >= now}

NoOutput == [body |-> EmptyBag, count |-> 0, wallClock |-> FALSE]

\* The record of a call: the operation, its envelope, what the transport
\* answered, the error returned ("nil" for none) and the request sent.
Call(op, env, resp, err, out) ==
    [op |-> op, env |-> env, resp |-> resp, err |-> err,
     body |-> out.body, count |-> out.count, wallClock |-> out.wallClock]

\* The six fields that make the identity of an envelope's metric.
Identity(envelope) ==
    [eventType |-> envelope.eventType,
     name |-> envelope.origin \o "."
                \o (IF envelope.eventType = ValueMetric
                    THEN envelope.valueMetric.name
                    ELSE envelope.counterEvent.name),
     deployment |-> envelope.deployment, job |-> envelope.job,
     index |-> envelope.index, ip |-> envelope.ip]

\* hist.window: for each identity, the envelopes of that identity that
\* AddMetric aggregated since the last successful flush, in the order of the
\* calls.
NoEnvelopes == [k \in {} |-> <<>>]

Ingested(window, envelope) ==
    LET id == Identity(envelope)
    IN  [k \in DOMAIN window \cup {id} |->
            IF k = id
            THEN Append(IF id \in DOMAIN window THEN window[id] ELSE <<>>, envelope)
            ELSE window[k]]

\* hist:
\*   AddMetric   the number of calls of AddMetric
\*   aggregated  those of them with a ValueMetric or CounterEvent envelope
\*   internal    AlertSlowConsumerError or PostMetrics was called
\*   alerted     AlertSlowConsumerError was called since the last successful flush
\*   window      see Ingested

\* post when no call of PostMetrics is in progress.
\*   pc       the position of the call: "idle", or the step it has completed
\*   body     seriesBytes
\*   count    metricsCount
\*   resp     what http.DefaultClient.Do returned
\*   seen     for each entry, the number of its points formatValues wrote
\* and two fields of history:
\*   offered  for each identity, how many of the first envelopes of hist.window
\*            had their point in a request handed to the transport
\*   lost     the number of points a reset of the map dropped before they were
\*            in any request
NoPoints == [k \in {} |-> 0]

Idle ==
    [pc |-> "idle", body |-> EmptyBag, count |-> 0, wallClock |-> FALSE,
     resp |-> NoResponse, seen |-> NoPoints, offered |-> NoPoints, lost |-> 0]

\* New(url, database, user, password, prefix, deployment, ip)
Init ==
    /\ metricPoints = EmptyMap
    /\ totalMessagesReceived = 0
    /\ totalMetricsSent = 0
    /\ prefix \in {"app."}
    /\ deployment \in {"prod"}
    /\ ip \in {"1.2.3.4"}
    /\ now \in {1000}
    /\ panicked = FALSE
    /\ call = Call("New", NoEnvelope, NoResponse, "nil", NoOutput)
    /\ hist = [AddMetric |-> 0, aggregated |-> 0, internal |-> FALSE,
               alerted |-> FALSE, window |-> NoEnvelopes]
    /\ post = Idle

Supported(envelope) ==
    ~(envelope.eventType # ValueMetric /\ envelope.eventType # CounterEvent)

\* AddMetric with a key that leaves the eventType at its zero value.
Aggregate_KeyWithoutEventType(m, envelope) ==
    LET key == metricKey(ZeroEventType, getName(envelope).val,
                         envelope.deployment, envelope.job, envelope.index,
                         envelope.ip)
        mVal == Lookup(m, key)
        point == [Timestamp |-> TimestampSeconds(envelope.timestamp),
                  Value |-> getValue(envelope).val]
    IN  Store(m, key, [tags |-> getTags(envelope),
                       points |-> Append(mVal.points, point)])

\* AddMetric with a key that leaves the job out of the identity.
Aggregate_KeyWithoutJob(m, envelope) ==
    LET key == metricKey(envelope.eventType, getName(envelope).val,
                         envelope.deployment, "", envelope.index, envelope.ip)
        mVal == Lookup(m, key)
        point == [Timestamp |-> TimestampSeconds(envelope.timestamp),
                  Value |-> getValue(envelope).val]
    IN  Store(m, key, [tags |-> getTags(envelope),
                       points |-> Append(mVal.points, point)])

\* AddMetric losing the slice append returns: the entry keeps the points it had.
Aggregate_DropsAppend(m, envelope) ==
    LET key == metricKey(envelope.eventType, getName(envelope).val,
                         envelope.deployment, envelope.job, envelope.index,
                         envelope.ip)
        mVal == Lookup(m, key)
    IN  Store(m, key, [tags |-> getTags(envelope), points |-> mVal.points])

\* AddMetric storing the new point alone, as addInternalMetric does.
Aggregate_ReplacesPoints(m, envelope) ==
    LET key == metricKey(envelope.eventType, getName(envelope).val,
                         envelope.deployment, envelope.job, envelope.index,
                         envelope.ip)
        point == [Timestamp |-> TimestampSeconds(envelope.timestamp),
                  Value |-> getValue(envelope).val]
    IN  Store(m, key, [tags |-> getTags(envelope), points |-> <<point>>])

\* The map after the part of AddMetric that follows the filter.
Aggregate(m, envelope) ==
    LET key == metricKey(envelope.eventType, getName(envelope).val,
                         envelope.deployment, envelope.job, envelope.index,
                         envelope.ip)
        mVal == Lookup(m, key)
        value == getValue(envelope).val
        point == [Timestamp |-> TimestampSeconds(envelope.timestamp),
                  Value |-> value]
    IN  Store(m, key, [tags |-> getTags(envelope),
                       points |-> Append(mVal.points, point)])

\* AddMetric counting an envelope only after the filter on its kind.
AddMetricResult_CountsAfterFilter(envelope) ==
    IF ~Supported(envelope)
    THEN [totalMessagesReceived |-> totalMessagesReceived,
          metricPoints |-> metricPoints, panicked |-> FALSE]
    ELSE [totalMessagesReceived |-> totalMessagesReceived + 1,
          metricPoints |-> Aggregate(metricPoints, envelope),
          panicked |-> FALSE]

\* The fields of the client after AddMetric(envelope), and whether it panicked.
AddMetricResult(envelope) ==
    LET received == totalMessagesReceived + 1
    IN  IF ~Supported(envelope)
        THEN [totalMessagesReceived |-> received, metricPoints |-> metricPoints,
              panicked |-> FALSE]
        ELSE IF getName(envelope).panic \/ getValue(envelope).panic
        THEN [totalMessagesReceived |-> received, metricPoints |-> metricPoints,
              panicked |-> TRUE]
        ELSE [totalMessagesReceived |-> received,
              metricPoints |-> Aggregate(metricPoints, envelope),
              panicked |-> FALSE]

AddMetric(envelope) ==
    /\ ~panicked
    /\ hist.AddMetric < MaxMsgs
    /\ \E r \in {AddMetricResult(envelope)} :
        /\ totalMessagesReceived' = r.totalMessagesReceived
        /\ metricPoints' = r.metricPoints
        /\ panicked' = r.panicked
    /\ call' = Call("AddMetric", envelope, NoResponse, "nil", NoOutput)
    /\ hist' = [hist EXCEPT !.AddMetric = @ + 1,
                            !.aggregated = @ + (IF Supported(envelope) THEN 1 ELSE 0),
                            !.window = IF Supported(envelope)
                                       THEN Ingested(@, envelope) ELSE @]
    /\ UNCHANGED <<totalMetricsSent, prefix, deployment, ip, now, post>>

AlertSlowConsumerError ==
    /\ ~panicked
    /\ \E t \in Clock :
        /\ metricPoints' = addInternalMetric(metricPoints, "slowConsumerAlert", 1, t)
        /\ now' = t
    /\ call' = Call("AlertSlowConsumerError", NoEnvelope, NoResponse, "nil", NoOutput)
    /\ hist' = [hist EXCEPT !.internal = TRUE, !.alerted = TRUE]
    /\ UNCHANGED <<totalMessagesReceived, totalMetricsSent, prefix, deployment,
                   ip, panicked, post>>

\* PostMetrics falling through to the reset after a response that is not 2xx.
PostResult_ResetsOnBadStatus(resp, populated, metricsCount) ==
    IF resp.err
    THEN [err |-> "transport", metricPoints |-> populated,
          totalMetricsSent |-> totalMetricsSent]
    ELSE [err |-> IF resp.StatusCode >= 300 \/ resp.StatusCode < 200
                  THEN "status" ELSE "nil",
          metricPoints |-> EmptyMap,
          totalMetricsSent |-> totalMetricsSent + metricsCount]

\* PostMetrics adding the count to totalMetricsSent before the check of the
\* status.
PostResult_CountsBeforeStatusCheck(resp, populated, metricsCount) ==
    IF resp.err
    THEN [err |-> "transport", metricPoints |-> populated,
          totalMetricsSent |-> totalMetricsSent]
    ELSE IF resp.StatusCode >= 300 \/ resp.StatusCode < 200
    THEN [err |-> "status", metricPoints |-> populated,
          totalMetricsSent |-> totalMetricsSent + metricsCount]
    ELSE [err |-> "nil", metricPoints |-> EmptyMap,
          totalMetricsSent |-> totalMetricsSent + metricsCount]

\* PostMetrics keeping the entry of slowConsumerAlert when it resets the map.
PostResult_KeepsAlertAcrossReset(resp, populated, metricsCount) ==
    IF resp.err
    THEN [err |-> "transport", metricPoints |-> populated,
          totalMetricsSent |-> totalMetricsSent]
    ELSE IF resp.StatusCode >= 300 \/ resp.StatusCode < 200
    THEN [err |-> "status", metricPoints |-> populated,
          totalMetricsSent |-> totalMetricsSent]
    ELSE [err |-> "nil",
          metricPoints |-> [k \in {InternalKey("slowConsumerAlert")} |-> populated[k]],
          totalMetricsSent |-> totalMetricsSent + metricsCount]

\* PostMetrics resetting the map when the transport returns an error.
PostResult_ResetsOnTransportError(resp, populated, metricsCount) ==
    IF resp.err
    THEN [err |-> "transport", metricPoints |-> EmptyMap,
          totalMetricsSent |-> totalMetricsSent]
    ELSE IF resp.StatusCode >= 300 \/ resp.StatusCode < 200
    THEN [err |-> "status", metricPoints |-> populated,
          totalMetricsSent |-> totalMetricsSent]
    ELSE [err |-> "nil", metricPoints |-> EmptyMap,
          totalMetricsSent |-> totalMetricsSent + metricsCount]

\* PostMetrics without the reset of the map after a 2xx response.
PostResult_NoReset(resp, populated, metricsCount) ==
    IF resp.err
    THEN [err |-> "transport", metricPoints |-> populated,
          totalMetricsSent |-> totalMetricsSent]
    ELSE IF resp.StatusCode >= 300 \/ resp.StatusCode < 200
    THEN [err |-> "status", metricPoints |-> populated,
          totalMetricsSent |-> totalMetricsSent]
    ELSE [err |-> "nil", metricPoints |-> populated,
          totalMetricsSent |-> totalMetricsSent + metricsCount]

\* The end of PostMetrics, from the answer of the transport on: the error
\* returned and the fields of the client. populated is the map after
\* populateInternalMetrics, metricsCount the count formatMetrics returned.
PostResult(resp, populated, metricsCount) ==
    IF resp.err
    THEN [err |-> "transport", metricPoints |-> populated,
          totalMetricsSent |-> totalMetricsSent]
    ELSE IF resp.StatusCode >= 300 \/ resp.StatusCode < 200
    THEN [err |-> "status", metricPoints |-> populated,
          totalMetricsSent |-> totalMetricsSent]
    ELSE [err |-> "nil", metricPoints |-> EmptyMap,
          totalMetricsSent |-> totalMetricsSent + metricsCount]

PostMetrics ==
    /\ ~panicked
    /\ totalMetricsSent < MaxSent
    /\ \E t1, t2, t3 \in Clock :
        /\ t1 <= t2 /\ t2 <= t3
        /\ \E populated \in {populateInternalMetrics(metricPoints, t1, t2, t3)} :
           \E t4 \in IF ReadsClock(populated) THEN {t \in Clock : t >= t3} ELSE {t3} :
           \E out \in {formatMetrics(prefix, populated, t4)} :
           \E resp \in Responses :
           \E r \in {PostResult(resp, populated, out.count)} :
                /\ now' = t4
                /\ metricPoints' = r.metricPoints
                /\ totalMetricsSent' = r.totalMetricsSent
                /\ call' = Call("PostMetrics", NoEnvelope, resp, r.err, out)
                /\ hist' = [hist EXCEPT !.internal = TRUE,
                                        !.alerted = IF r.err = "nil" THEN FALSE ELSE @,
                                        !.window = IF r.err = "nil" THEN NoEnvelopes ELSE @]
    /\ UNCHANGED <<totalMessagesReceived, prefix, deployment, ip, panicked, post>>

Next ==
    \/ \E envelope \in Envelopes : AddMetric(envelope)
    \/ AlertSlowConsumerError
    \/ PostMetrics

Spec == Init /\ [][Next]_vars

---------------------------------------------------------------------------
(* formatMetrics as a function of the prefix and the map: the client is    *)
(* built with a map of one entry drawn from the sets below, and            *)
(* formatMetrics is applied to it once.                                    *)

FormatTags ==
    {<<>>, <<"deployment=prod">>, <<"ip=1.2.3.4", "deployment=prod">>,
     <<"deployment=prod", "job=x", "index=0">>}

FormatPoints ==
    {[Timestamp |-> 1000, Value |-> 7], [Timestamp |-> 1002, Value |-> 4],
     [Timestamp |-> 0, Value |-> 0], [Timestamp |-> -1, Value |-> -3]}

FormatSeries ==
    {<<>>} \cup {<<p>> : p \in FormatPoints}
        \cup {<<p, q>> : p \in FormatPoints, q \in FormatPoints}

FormatKey == metricKey(ValueMetric, "name", "", "", "", "")

InitFormat ==
    /\ prefix \in {"", "app."}
    /\ \E tags \in FormatTags, points \in FormatSeries :
        metricPoints = Store(EmptyMap, FormatKey, [tags |-> tags, points |-> points])
    /\ totalMessagesReceived = 0
    /\ totalMetricsSent = 0
    /\ deployment = "prod"
    /\ ip = "1.2.3.4"
    /\ now \in Times
    /\ panicked = FALSE
    /\ call = Call("New", NoEnvelope, NoResponse, "nil", NoOutput)
    /\ hist = [AddMetric |-> 0, aggregated |-> 0, internal |-> FALSE,
               alerted |-> FALSE, window |-> NoEnvelopes]
    /\ post = Idle

FormatMetrics ==
    /\ call.op = "New"
    /\ \E t \in IF ReadsClock(metricPoints) THEN Clock ELSE {now} :
        /\ call' = Call("formatMetrics", NoEnvelope, NoResponse, "nil",
                        formatMetrics(prefix, metricPoints, t))
        /\ now' = t
    /\ UNCHANGED <<metricPoints, totalMessagesReceived, totalMetricsSent, prefix,
                   deployment, ip, panicked, hist, post>>

NextFormat == FormatMetrics

SpecFormat == InitFormat /\ [][NextFormat]_vars

---------------------------------------------------------------------------
(* AddMetric called from another goroutine while PostMetrics is in         *)
(* progress. The client has no lock, so the calls of AddMetric run between *)
(* the steps of PostMetrics: populateInternalMetrics, formatMetrics, the   *)
(* request, and the update of the counter with the reset of the map. A     *)
(* call that overlaps one of the map accesses of PostMetrics is a data     *)
(* race, which the runtime may end with a fatal error.                     *)

\* The envelopes ingested while a flush is in progress.
ConcurrentEnvelopes == {E0, E1, EHttp}

\* offered[k], 0 for an identity that was in no request.
Offered(offered, k) == IF k \in DOMAIN offered THEN offered[k] ELSE 0

RECURSIVE Unoffered(_, _, _)
\* The number of envelopes of window whose point was in no request.
Unoffered(window, offered, keys) ==
    IF keys = {} THEN 0
    ELSE LET k == CHOOSE x \in keys : TRUE
         IN  (Len(window[k]) - Offered(offered, k))
                + Unoffered(window, offered, keys \ {k})

\* PostMetrics up to c.populateInternalMetrics().
PostPopulate ==
    /\ ~panicked
    /\ post.pc = "idle"
    /\ totalMetricsSent < MaxSent
    /\ \E t1, t2, t3 \in Clock :
        /\ t1 <= t2 /\ t2 <= t3
        /\ metricPoints' = populateInternalMetrics(metricPoints, t1, t2, t3)
        /\ now' = t3
    /\ post' = [post EXCEPT !.pc = "populated"]
    /\ hist' = [hist EXCEPT !.internal = TRUE]
    /\ UNCHANGED <<totalMessagesReceived, totalMetricsSent, prefix, deployment,
                   ip, panicked, call>>

\* seriesBytes, metricsCount := c.formatMetrics()
PostFormat ==
    /\ ~panicked
    /\ post.pc = "populated"
    /\ \E t4 \in IF ReadsClock(metricPoints) THEN Clock ELSE {now} :
       \E out \in {formatMetrics(prefix, metricPoints, t4)} :
            /\ now' = t4
            /\ post' = [post EXCEPT
                            !.pc = "formatted", !.body = out.body,
                            !.count = out.count, !.wallClock = out.wallClock,
                            !.seen = [k \in DOMAIN metricPoints |->
                                        Len(metricPoints[k].points)]]
    /\ UNCHANGED <<metricPoints, totalMessagesReceived, totalMetricsSent, prefix,
                   deployment, ip, panicked, call, hist>>

\* resp, err := http.DefaultClient.Do(req)
PostDo ==
    /\ ~panicked
    /\ post.pc = "formatted"
    /\ \E resp \in Responses :
        post' = [post EXCEPT !.pc = "answered", !.resp = resp,
                             !.offered = post.seen]
    /\ UNCHANGED <<metricPoints, totalMessagesReceived, totalMetricsSent, prefix,
                   deployment, ip, now, panicked, call, hist>>

\* The rest of PostMetrics: the checks of err and of the status, the update
\* of totalMetricsSent and the reset of the map.
PostReturn ==
    /\ ~panicked
    /\ post.pc = "answered"
    /\ \E r \in {PostResult(post.resp, metricPoints, post.count)} :
        /\ metricPoints' = r.metricPoints
        /\ totalMetricsSent' = r.totalMetricsSent
        /\ call' = Call("PostMetrics", NoEnvelope, post.resp, r.err, post)
        /\ hist' = [hist EXCEPT !.alerted = IF r.err = "nil" THEN FALSE ELSE @,
                                !.window = IF r.err = "nil" THEN NoEnvelopes ELSE @]
        /\ post' = [Idle EXCEPT
                        !.offered = IF r.err = "nil" THEN NoPoints ELSE post.offered,
                        !.lost = post.lost
                                    + (IF r.err = "nil"
                                       THEN Unoffered(hist.window, post.offered,
                                                      DOMAIN hist.window)
                                       ELSE 0)]
    /\ UNCHANGED <<totalMessagesReceived, prefix, deployment, ip, now, panicked>>

\* A call of AddMetric that writes the map while a step of PostMetrics reads
\* or writes it: the runtime detects the concurrent access and ends the
\* process with a fatal error.
ConcurrentMapAccess(envelope) ==
    /\ ~panicked
    /\ hist.AddMetric < MaxMsgs
    /\ Supported(envelope)
    /\ post.pc \in {"populated", "answered"}
    /\ totalMessagesReceived' = totalMessagesReceived + 1
    /\ panicked' = TRUE
    /\ call' = Call("AddMetric", envelope, NoResponse, "nil", NoOutput)
    /\ hist' = [hist EXCEPT !.AddMetric = @ + 1]
    /\ UNCHANGED <<metricPoints, totalMetricsSent, prefix, deployment, ip, now,
                   post>>

NextConcurrent ==
    \/ \E envelope \in ConcurrentEnvelopes : AddMetric(envelope)
    \/ \E envelope \in ConcurrentEnvelopes : ConcurrentMapAccess(envelope)
    \/ PostPopulate
    \/ PostFormat
    \/ PostDo
    \/ PostReturn

SpecConcurrent == Init /\ [][NextConcurrent]_vars

---------------------------------------------------------------------------
(* The client in a window in which AlertSlowConsumerError was called: it   *)
(* starts after New and one call of AlertSlowConsumerError made at second  *)
(* 1000.                                                                   *)

InitAlert ==
    /\ totalMessagesReceived = 0
    /\ totalMetricsSent = 0
    /\ prefix = "app."
    /\ deployment = "prod"
    /\ ip = "1.2.3.4"
    /\ now = 1000
    /\ metricPoints = addInternalMetric(EmptyMap, "slowConsumerAlert", 1, now)
    /\ panicked = FALSE
    /\ call = Call("AlertSlowConsumerError", NoEnvelope, NoResponse, "nil", NoOutput)
    /\ hist = [AddMetric |-> 0, aggregated |-> 0, internal |-> TRUE,
               alerted |-> TRUE, window |-> NoEnvelopes]
    /\ post = Idle

NextAlert ==
    \/ \E envelope \in ConcurrentEnvelopes : AddMetric(envelope)
    \/ AlertSlowConsumerError
    \/ PostMetrics

SpecAlert == InitAlert /\ [][NextAlert]_vars

---------------------------------------------------------------------------
(* The timestamps of the envelopes, through AddMetric and formatTimestamp: *)
(* the client ingests envelopes that differ from E0 in their timestamp     *)
(* alone, and flushes.                                                     *)

\* Timestamps in nanoseconds, s * Second + ns: 0, 1, 999999999, 1000000000,
\* 1000999999999, -1, -1000000000 and -1999999999.
Stamps ==
    {[s |-> 0, ns |-> 0], [s |-> 0, ns |-> 1], [s |-> 0, ns |-> 999999999],
     [s |-> 1, ns |-> 0], [s |-> 1000, ns |-> 999999999],
     [s |-> -1, ns |-> 999999999], [s |-> -1, ns |-> 0], [s |-> -2, ns |-> 1]}

StampEnvelopes == {[E0 EXCEPT !.timestamp = t] : t \in Stamps}

NextTimestamp ==
    \/ \E envelope \in StampEnvelopes : AddMetric(envelope)
    \/ PostMetrics

SpecTimestamp == Init /\ [][NextTimestamp]_vars

---------------------------------------------------------------------------
(* Envelopes made to resemble the internal metrics of the client: the      *)
(* deployment and the ip of the client, no job, no index, no origin, and   *)
(* the name of an internal metric.                                         *)

EAlert ==
    [eventType |-> ValueMetric, origin |-> "", deployment |-> "prod",
     job |-> "", index |-> "", ip |-> "1.2.3.4",
     timestamp |-> [s |-> 1000, ns |-> 0],
     valueMetric |-> Payload("slowConsumerAlert", 2), counterEvent |-> NilPayload]

ESent ==
    [eventType |-> CounterEvent, origin |-> "", deployment |-> "prod",
     job |-> "", index |-> "", ip |-> "1.2.3.4",
     timestamp |-> [s |-> 1000, ns |-> 0],
     valueMetric |-> NilPayload, counterEvent |-> Payload("totalMetricsSent", 9)]

KeyEnvelopes == {EAlert, ESent, EJobIndex}

NextKeys ==
    \/ \E envelope \in KeyEnvelopes : AddMetric(envelope)
    \/ AlertSlowConsumerError
    \/ PostMetrics

SpecKeys == Init /\ [][NextKeys]_vars

---------------------------------------------------------------------------
(* Vocabulary of the properties.                                           *)

\* An entry made from an ingested envelope.
IsData(k) == k.eventType \in {"ValueMetric", "CounterEvent"}

InternalNames == {"totalMessagesReceived", "totalMetricsSent", "slowConsumerAlert"}

\* The key of the internal metric called name.
SelfKey(name) ==
    [eventType |-> ZeroEventType, name |-> name, deployment |-> deployment,
     job |-> "", index |-> "", ip |-> ip]

\* The line of the internal metric called name with value v written at
\* second t.
SelfLine(name, v, t) ==
    prefix \o name \o ",ip=" \o ip \o ",deployment=" \o deployment
        \o " value=" \o ToString(v) \o " " \o ToString(t) \o "000000000\n"

\* The transport returned an error or a status outside [200, 300).
TransportFailed(resp) == resp.err \/ resp.StatusCode \notin 200..299

---------------------------------------------------------------------------
(* C1: a failed flush (the transport returns an error or a status outside  *)
(* [200, 300)) returns an error, leaves totalMetricsSent as it was and     *)
(* keeps every data entry with its tags and points; the map holds exactly  *)
(* the entries it held plus the three internal metrics of the snapshot.    *)
C1_FailedFlushKeepsAggregate ==
    [][(call'.op = "PostMetrics" /\ TransportFailed(call'.resp)) =>
            /\ call'.err # "nil"
            /\ totalMetricsSent' = totalMetricsSent
            /\ \A k \in DOMAIN metricPoints :
                IsData(k) => /\ k \in DOMAIN metricPoints'
                             /\ metricPoints'[k] = metricPoints[k]
            /\ DOMAIN metricPoints'
                = DOMAIN metricPoints \cup {SelfKey(n) : n \in InternalNames}]_vars

\* A flush failed on a status while an entry held two points.
C1_Witness ==
    /\ call.op = "PostMetrics"
    /\ call.resp.StatusCode = 300
    /\ call.err = "status"
    /\ \E k \in DOMAIN metricPoints : IsData(k) /\ Len(metricPoints[k].points) = 2

(* C2: after a successful flush the map is empty, and a flush that follows *)
(* it directly sends exactly the three internal metrics: the two counters  *)
(* and slowConsumerAlert at 0.                                             *)
C2_FlushAfterSuccessSendsInternalOnly ==
    /\ [](call.op = "PostMetrics" /\ ~TransportFailed(call.resp)
            => metricPoints = EmptyMap)
    /\ [][(/\ call.op = "PostMetrics" /\ ~TransportFailed(call.resp)
           /\ call'.op = "PostMetrics") =>
            /\ call'.count = 3
            /\ \E t1, t2, t3 \in Times :
                call'.body = SetToBag(
                    {SelfLine("totalMessagesReceived", totalMessagesReceived, t1),
                     SelfLine("totalMetricsSent", totalMetricsSent, t2),
                     SelfLine("slowConsumerAlert", 0, t3)})]_vars

\* A second successful flush, of internal metrics only, after one that sent
\* data.
C2_Witness ==
    /\ call.op = "PostMetrics"
    /\ call.resp.StatusCode = 299
    /\ metricPoints = EmptyMap
    /\ call.count = 3
    /\ hist.aggregated = 2
    /\ totalMetricsSent >= 7

(* C3: totalMessagesReceived is the number of AddMetric calls made so far, *)
(* of whatever kind; while every envelope ingested was of a kind other     *)
(* than ValueMetric and CounterEvent the map has no data entry, and no     *)
(* entry at all if no alert or flush was made.                             *)
C3_ReceivedCountsEveryEnvelope ==
    /\ totalMessagesReceived = hist.AddMetric
    /\ hist.aggregated = 0 => \A k \in DOMAIN metricPoints : ~IsData(k)
    /\ (hist.aggregated = 0 /\ ~hist.internal) => metricPoints = EmptyMap

\* Two envelopes of another kind were ingested and nothing else was called.
C3_Witness ==
    /\ hist.AddMetric = 2
    /\ hist.aggregated = 0
    /\ ~hist.internal
    /\ call.env.eventType = "HttpStartStop"
    /\ totalMessagesReceived = 2

\* The Observation AddMetric makes of an envelope: its timestamp in whole
\* seconds and its value (in halves), the total of a counter event.
Observation(envelope) ==
    [Timestamp |-> envelope.timestamp.s,
     Value |-> IF envelope.eventType = "ValueMetric"
               THEN envelope.valueMetric.value
               ELSE 2 * envelope.counterEvent.value]

(* C4: within a window the entry of an identity holds exactly one          *)
(* Observation per envelope ingested with that identity, in the order of   *)
(* ingestion, and there is one data entry per identity ingested: envelopes *)
(* that differ in an identity field are in different entries.              *)
C4_OneObservationPerEnvelopeInOrder ==
    /\ {k \in DOMAIN metricPoints : IsData(k)} = DOMAIN hist.window
    /\ \A k \in DOMAIN hist.window :
        /\ k \in DOMAIN metricPoints
        /\ Len(metricPoints[k].points) = Len(hist.window[k])
        /\ \A i \in 1..Len(hist.window[k]) :
            /\ Identity(hist.window[k][i]) = k
            /\ metricPoints[k].points[i] = Observation(hist.window[k][i])

\* E0 and then E1, of the same identity, were ingested: the entry holds
\* their two observations in that order.
C4_Witness ==
    /\ call.op = "AddMetric"
    /\ call.env = E1
    /\ hist.window[Identity(E0)] = <<E0, E1>>
    /\ metricPoints[Identity(E0)].points
        = <<[Timestamp |-> 1000, Value |-> 7], [Timestamp |-> 1002, Value |-> 4]>>

\* line occurs in the bag body.
HasLine(body, line) == BagIn(line, body)

(* C5: a flush made after AlertSlowConsumerError in the same window sends  *)
(* slowConsumerAlert with the single value 1 and no 0; a flush with no     *)
(* alert in the window sends it with value 0. After a failed flush the     *)
(* entry holds that single value.                                          *)
C5_AlertIsNotOverwrittenByDefault ==
    [][call'.op = "PostMetrics" =>
        LET v == IF hist.alerted THEN 1 ELSE 0
        IN  /\ \E t \in Times :
                HasLine(call'.body, SelfLine("slowConsumerAlert", v, t))
            /\ \A t \in Times :
                ~HasLine(call'.body, SelfLine("slowConsumerAlert", 1 - v, t))
            /\ call'.err # "nil" =>
                /\ Len(metricPoints'[SelfKey("slowConsumerAlert")].points) = 1
                /\ metricPoints'[SelfKey("slowConsumerAlert")].points[1].Value
                    = 2 * v]_vars

\* A successful flush that reported the alert raised in its window.
C5_Witness ==
    /\ call.op = "PostMetrics"
    /\ call.err = "nil"
    /\ \E t \in Times : HasLine(call.body, SelfLine("slowConsumerAlert", 1, t))

\* The tags of an envelope: key=value for deployment, job, index and ip in
\* that order, without those whose value is empty.
TagsOf(envelope) ==
    LET fields == <<<<"deployment", envelope.deployment>>, <<"job", envelope.job>>,
                    <<"index", envelope.index>>, <<"ip", envelope.ip>>>>
        present == SelectSeq(fields, LAMBDA f : f[2] # "")
    IN  [i \in 1..Len(present) |-> present[i][1] \o "=" \o present[i][2]]

HasTag(mVal, tag) == \E i \in 1..Len(mVal.tags) : mVal.tags[i] = tag

(* C6 as stated: once an envelope with job "" has been ingested, the entry *)
(* of every envelope that differs from it in the job alone omits the job   *)
(* tag (the envelope with job "x" and the one with job "" share an entry,  *)
(* whose tags are those of the later one).                                 *)
C6_JobTagOverwrittenByLaterEnvelope ==
    (call.op = "AddMetric" /\ Supported(call.env) /\ call.env.job = "") =>
        \A k \in DOMAIN metricPoints :
            (IsData(k) /\ [k EXCEPT !.job = ""] = Identity(call.env))
                => ~HasTag(metricPoints[k], "job=x")

(* C6, amended: the tags of an entry are those of the most recent envelope *)
(* ingested for its identity. The job is part of the identity, so an       *)
(* envelope with job "x" and one with job "" are in two entries: the first *)
(* keeps the tag job=x and the second has no job tag.                      *)
C6_TagsOfMostRecentEnvelopeOfIdentity ==
    \A k \in DOMAIN hist.window :
        /\ k \in DOMAIN metricPoints
        /\ metricPoints[k].tags = TagsOf(hist.window[k][Len(hist.window[k])])
        /\ HasTag(metricPoints[k], "job=x") <=> k.job = "x"

\* E0, with job "x", and then EJob, with job "", were ingested.
C6_Witness ==
    /\ call.op = "AddMetric"
    /\ call.env = EJob
    /\ Identity(E0) \in DOMAIN metricPoints
    /\ Identity(EJob) \in DOMAIN metricPoints
    /\ Identity(E0) # Identity(EJob)

(* C7: the count formatMetrics returns is the number of entries of the map *)
(* at serialization (the entries before the flush and the internal         *)
(* metrics), the body has that many lines whatever the number of points,   *)
(* and a successful flush adds exactly that count to totalMetricsSent. An  *)
(* entry with the two points of E0 and E1 is sent as one line ending in a  *)
(* newline.                                                                *)
C7_CountIsNumberOfEntries ==
    [][call'.op = "PostMetrics" =>
        LET entries == DOMAIN metricPoints \cup {SelfKey(n) : n \in InternalNames}
        IN  /\ call'.count = Cardinality(entries)
            /\ BagCardinality(call'.body) = call'.count
            /\ call'.err # "nil" => /\ DOMAIN metricPoints' = entries
                                    /\ totalMetricsSent' = totalMetricsSent
            /\ call'.err = "nil" =>
                    totalMetricsSent' = totalMetricsSent + call'.count
            /\ (DOMAIN hist.window = {Identity(E0)}
                    /\ hist.window[Identity(E0)] = <<E0, E1>>) =>
                /\ call'.count = 4
                /\ HasLine(call'.body,
                    "app.o.m,deployment=prod,job=x,index=0,ip=1.2.3.4 value=3.5,value=2 1000000000000\n")]_vars

\* The first successful flush sent four records: the three internal metrics
\* and one entry holding the points of two envelopes.
C7_Witness ==
    /\ call.op = "PostMetrics"
    /\ call.err = "nil"
    /\ call.count = 4
    /\ totalMetricsSent = 4
    /\ hist.aggregated = 2

\* The text of the tags, of a value (given in halves) and of a timestamp
\* (given in seconds) of the entries formatMetrics is applied to.
TagText(tags) ==
    CASE tags = <<>> -> ""
      [] tags = <<"deployment=prod">> -> "deployment=prod"
      [] tags = <<"ip=1.2.3.4", "deployment=prod">> -> "ip=1.2.3.4,deployment=prod"
      [] tags = <<"deployment=prod", "job=x", "index=0">>
            -> "deployment=prod,job=x,index=0"

ValueText(v) ==
    CASE v = 7 -> "3.5" [] v = 4 -> "2" [] v = 0 -> "0" [] v = -3 -> "-1.5"

StampText(seconds) ==
    CASE seconds = 1000 -> "1000000000000"
      [] seconds = 1001 -> "1001000000000"
      [] seconds = 1002 -> "1002000000000"
      [] seconds = 0 -> "0"
      [] seconds = -1 -> "-1000000000"

FieldsText(points) ==
    CASE Len(points) = 0 -> ""
      [] Len(points) = 1 -> "value=" \o ValueText(points[1].Value)
      [] Len(points) = 2 -> "value=" \o ValueText(points[1].Value)
                                \o ",value=" \o ValueText(points[2].Value)

(* C8: formatMetrics writes for an entry the line                          *)
(* <prefix><name>,<tags joined by commas> <value=<v> of each point, joined *)
(* by commas> <timestamp of the first point in ns>\n, with the comma after *)
(* the name also when there is no tag, and with the time of the clock for  *)
(* an entry without points. With prefix "app.", tags ip=1.2.3.4 and        *)
(* deployment=prod and the point {1000, 3.5} the line is                   *)
(* "app.name,ip=1.2.3.4,deployment=prod value=3.5 1000000000000\n".        *)
C8_LineOfAnEntry ==
    call.op = "formatMetrics" =>
        LET mVal == metricPoints[FormatKey]
            stamp == IF Len(mVal.points) > 0
                     THEN StampText(mVal.points[1].Timestamp)
                     ELSE StampText(now)
        IN  /\ call.count = 1
            /\ call.body = SetToBag({prefix \o "name," \o TagText(mVal.tags) \o " "
                                        \o FieldsText(mVal.points) \o " " \o stamp
                                        \o "\n"})
            /\ (/\ prefix = "app."
                /\ mVal = [tags |-> <<"ip=1.2.3.4", "deployment=prod">>,
                           points |-> <<[Timestamp |-> 1000, Value |-> 7]>>]) =>
                call.body = SetToBag(
                    {"app.name,ip=1.2.3.4,deployment=prod value=3.5 1000000000000\n"})
            /\ (/\ prefix = "app."
                /\ mVal = [tags |-> <<>>,
                           points |-> <<[Timestamp |-> 1000, Value |-> 7],
                                        [Timestamp |-> 1002, Value |-> 4]>>]) =>
                call.body = SetToBag({"app.name, value=3.5,value=2 1000000000000\n"})

\* formatMetrics was applied to an entry without tags that holds two points.
C8_Witness ==
    /\ call.op = "formatMetrics"
    /\ prefix = "app."
    /\ metricPoints[FormatKey].tags = <<>>
    /\ Len(metricPoints[FormatKey].points) = 2
    /\ call.body = SetToBag({"app.name, value=3.5,value=2 1000000000000\n"})

(* C9: every entry of the map has at least one point, in every reachable   *)
(* state, and no flush makes formatTimestamp read the wall clock.          *)
C9_EveryEntryHasAPoint ==
    /\ \A k \in DOMAIN metricPoints : Len(metricPoints[k].points) >= 1
    /\ call.op = "PostMetrics" => ~call.wallClock

\* A failed flush of two data entries and the three internal metrics.
C9_Witness ==
    /\ call.op = "PostMetrics"
    /\ call.err = "transport"
    /\ call.count = 5
    /\ Cardinality(DOMAIN metricPoints) = 5

\* The envelope is of a kind AddMetric aggregates and lacks the payload of
\* that kind.
LacksPayload(envelope) ==
    \/ envelope.eventType = "ValueMetric" /\ envelope.valueMetric.nil
    \/ envelope.eventType = "CounterEvent" /\ envelope.counterEvent.nil

HalvesText(v) == ToString(v \div 2) \o (IF v % 2 = 1 THEN ".5" ELSE "")

RECURSIVE Joined(_)
\* The texts joined by commas.
Joined(texts) ==
    IF Len(texts) = 0 THEN ""
    ELSE IF Len(texts) = 1 THEN texts[1]
    ELSE texts[1] \o "," \o Joined(Tail(texts))

\* The line that reports the Observations of envs, the envelopes of one
\* identity in the order of ingestion: the tags of the last one, a value per
\* envelope and the second of the first one.
DataLine(envs) ==
    prefix \o Identity(envs[1]).name \o ","
        \o Joined(TagsOf(envs[Len(envs)])) \o " "
        \o Joined([i \in 1..Len(envs) |->
                    "value=" \o HalvesText(Observation(envs[i]).Value)])
        \o " " \o ToString(envs[1].timestamp.s) \o "000000000\n"

(* C11: when the calls do not overlap, the batch of every flush attempt    *)
(* holds the Observations of exactly the envelopes aggregated since the    *)
(* last successful flush: one line per identity with one value per        *)
(* envelope, and three more lines (the internal metrics). A failed flush   *)
(* keeps every data entry and a successful one keeps none, so an           *)
(* Observation is in every batch up to the first successful flush and in   *)
(* none after it.                                                          *)
C11_NoObservationLostOrSentTwice ==
    [][call'.op = "PostMetrics" =>
        LET window == hist.window
        IN  /\ \A line \in {[k \in DOMAIN window |-> DataLine(window[k])]} :
                \A k \in DOMAIN window :
                    CopiesIn(line[k], call'.body)
                        = Cardinality({j \in DOMAIN window : line[j] = line[k]})
            /\ BagCardinality(call'.body) = Cardinality(DOMAIN window) + 3
            /\ call'.err # "nil" =>
                \A k \in DOMAIN window :
                    /\ k \in DOMAIN metricPoints'
                    /\ Len(metricPoints'[k].points) = Len(window[k])
            /\ call'.err = "nil" => \A k \in DOMAIN metricPoints' : ~IsData(k)]_vars

\* A failed flush whose batch held the Observations of E0 and E1, which stay
\* in the map for the next attempt.
C11_Witness ==
    /\ call.op = "PostMetrics"
    /\ call.err = "status"
    /\ hist.window = [k \in {Identity(E0)} |-> <<E0, E1>>]
    /\ HasLine(call.body, DataLine(<<E0, E1>>))
    /\ Len(metricPoints[Identity(E0)].points) = 2

(* C12: when AddMetric runs between the steps of PostMetrics, the reset of  *)
(* a successful flush drops whatever the map holds. Of the envelopes of an *)
(* identity aggregated since the last reset, the request held the points   *)
(* of those ingested before formatMetrics ran and of no later one; the     *)
(* later ones are dropped with the map without having been in any request, *)
(* and totalMessagesReceived still counts them.                            *)
C12_ResetDropsPointsIngestedAfterSerialization ==
    [][(post.pc = "answered" /\ call'.op = "PostMetrics" /\ call'.err = "nil") =>
        LET window == hist.window
            sent(k) == Offered(post.offered, k)
            late == {<<k, i>> \in (DOMAIN window) \X (1..MaxMsgs + 1) :
                        sent(k) < i /\ i <= Len(window[k])}
        IN  /\ metricPoints' = EmptyMap
            /\ totalMessagesReceived' = totalMessagesReceived
            /\ totalMessagesReceived >= hist.aggregated
            /\ BagCardinality(call'.body)
                = 3 + Cardinality({k \in DOMAIN window : sent(k) > 0})
            /\ \A k \in DOMAIN window :
                /\ sent(k) <= Len(window[k])
                /\ sent(k) > 0 =>
                    HasLine(call'.body, DataLine(SubSeq(window[k], 1, sent(k))))
            /\ \A <<k, i>> \in late :
                ~HasLine(call'.body, DataLine(SubSeq(window[k], 1, i)))
            /\ post'.lost = post.lost + Cardinality(late)]_vars

\* The one envelope aggregated so far was ingested while the one flush was
\* in progress: the request held the three internal metrics only, the map
\* is empty, and the envelope is counted.
C12_Witness ==
    /\ call.op = "PostMetrics"
    /\ call.err = "nil"
    /\ call.count = 3
    /\ totalMetricsSent = 3
    /\ metricPoints = EmptyMap
    /\ hist.aggregated = 1
    /\ totalMessagesReceived = 1
    /\ post.lost = 1

\* The entry of slowConsumerAlert after a single call of
\* AlertSlowConsumerError made at second t.
AlertedOnce(t) ==
    [tags |-> <<"ip=1.2.3.4", "deployment=prod">>,
     points |-> <<[Timestamp |-> t, Value |-> 2]>>]

(* C13: in a window in which AlertSlowConsumerError was called, once or    *)
(* more, with calls of AddMetric and failed flushes between, the entry of  *)
(* slowConsumerAlert is the one a single call makes: the tags ip and       *)
(* deployment of the client in that order and exactly one point of value   *)
(* 1, at the second of some call. A call made while the entry is there     *)
(* changes nothing but the second of that point.                           *)
C13_AlertIsIdempotentInAWindow ==
    /\ [](hist.alerted =>
            /\ SelfKey("slowConsumerAlert") \in DOMAIN metricPoints
            /\ \E t \in Times :
                metricPoints[SelfKey("slowConsumerAlert")] = AlertedOnce(t))
    /\ [][(call'.op = "AlertSlowConsumerError" /\ hist.alerted) =>
            /\ DOMAIN metricPoints' = DOMAIN metricPoints
            /\ \A k \in DOMAIN metricPoints :
                k # SelfKey("slowConsumerAlert") => metricPoints'[k] = metricPoints[k]
            /\ metricPoints'[SelfKey("slowConsumerAlert")] = AlertedOnce(now')
            /\ metricPoints[SelfKey("slowConsumerAlert")].tags
                = metricPoints'[SelfKey("slowConsumerAlert")].tags
            /\ Len(metricPoints[SelfKey("slowConsumerAlert")].points) = 1
            /\ metricPoints[SelfKey("slowConsumerAlert")].points[1].Value = 2]_vars

\* AlertSlowConsumerError was called at second 1001 in the window in which
\* it had been called at second 1000, a failed flush having been made
\* between the two calls.
C13_Witness ==
    /\ call.op = "AlertSlowConsumerError"
    /\ hist.alerted
    /\ totalMetricsSent = 0
    /\ SelfKey("totalMetricsSent") \in DOMAIN metricPoints
    /\ metricPoints[SelfKey("slowConsumerAlert")] = AlertedOnce(1001)

(* C14: the two counters never decrease and are not reset with the map.    *)
(* PostMetrics, failed or successful, leaves totalMessagesReceived as it   *)
(* was; AddMetric and AlertSlowConsumerError leave totalMetricsSent as it  *)
(* was; a failed PostMetrics leaves both as they were; totalMetricsSent    *)
(* changes in a successful PostMetrics only, which empties the map.        *)
C14_CountersPersistAcrossWindows ==
    [][/\ totalMessagesReceived' >= totalMessagesReceived
       /\ totalMetricsSent' >= totalMetricsSent
       /\ call'.op = "PostMetrics" => totalMessagesReceived' = totalMessagesReceived
       /\ call'.op \in {"AddMetric", "AlertSlowConsumerError"} =>
            totalMetricsSent' = totalMetricsSent
       /\ (call'.op = "PostMetrics" /\ call'.err # "nil") =>
            /\ totalMessagesReceived' = totalMessagesReceived
            /\ totalMetricsSent' = totalMetricsSent
       /\ totalMetricsSent' # totalMetricsSent =>
            /\ call'.op = "PostMetrics"
            /\ call'.err = "nil"
            /\ metricPoints' = EmptyMap
       /\ (call'.op = "PostMetrics" /\ call'.err = "nil") =>
            /\ metricPoints' = EmptyMap
            /\ totalMetricsSent' > totalMetricsSent]_vars

\* The second window was closed by a successful flush: the map is empty and
\* the counters hold the two envelopes of the first window and the records of
\* both flushes.
C14_Witness ==
    /\ call.op = "PostMetrics"
    /\ call.err = "nil"
    /\ metricPoints = EmptyMap
    /\ totalMessagesReceived = 2
    /\ call.count = 3
    /\ totalMetricsSent = 8

\* The value of slowConsumerAlert a flush of the map m reports: that of the
\* entry when there is one, the default 0 otherwise.
AlertValue(m) ==
    IF SelfKey("slowConsumerAlert") \in DOMAIN m
    THEN m[SelfKey("slowConsumerAlert")].points[1].Value \div 2
    ELSE 0

(* C15: from a call of AlertSlowConsumerError until the first successful   *)
(* flush the entry of slowConsumerAlert holds the single value 1, and      *)
(* every flush attempt in between reports 1 and no 0; a failed flush keeps *)
(* the entry and a successful one removes it, so the flush that follows a  *)
(* successful flush reports 0. Without a call in the window the entry, if  *)
(* a failed flush made it, holds 0; a call of AlertSlowConsumerError       *)
(* replaces it by the single value 1, which the next flush reports.        *)
C15_AlertReportedUntilSuccessfulFlush ==
    /\ [](hist.alerted <=> AlertValue(metricPoints) = 1)
    /\ [](SelfKey("slowConsumerAlert") \in DOMAIN metricPoints =>
            /\ Len(metricPoints[SelfKey("slowConsumerAlert")].points) = 1
            /\ AlertValue(metricPoints) \in {0, 1})
    /\ [][call'.op = "PostMetrics" =>
            /\ \E t \in Times :
                HasLine(call'.body,
                        SelfLine("slowConsumerAlert", AlertValue(metricPoints), t))
            /\ \A t \in Times :
                ~HasLine(call'.body,
                         SelfLine("slowConsumerAlert", 1 - AlertValue(metricPoints), t))
            /\ call'.err # "nil" =>
                /\ SelfKey("slowConsumerAlert") \in DOMAIN metricPoints'
                /\ AlertValue(metricPoints') = AlertValue(metricPoints)
            /\ call'.err = "nil" =>
                SelfKey("slowConsumerAlert") \notin DOMAIN metricPoints']_vars
    /\ [][(call.op = "PostMetrics" /\ call.err = "nil" /\ call'.op = "PostMetrics") =>
            \E t \in Times :
                HasLine(call'.body, SelfLine("slowConsumerAlert", 0, t))]_vars
    /\ [][call'.op = "AlertSlowConsumerError" =>
            /\ AlertValue(metricPoints') = 1
            /\ Len(metricPoints'[SelfKey("slowConsumerAlert")].points) = 1]_vars

\* A flush at second 1001 failed after having reported the alert raised at
\* second 1000, which stays in the map for the next attempt.
C15_Witness ==
    /\ call.op = "PostMetrics"
    /\ call.err = "transport"
    /\ HasLine(call.body, SelfLine("slowConsumerAlert", 1, 1000))
    /\ HasLine(call.body, SelfLine("totalMetricsSent", 0, 1001))
    /\ AlertValue(metricPoints) = 1
    /\ hist.alerted

\* <<key=value>>, or nothing for an empty value.
TagOrNone(key, value) == IF value = "" THEN <<>> ELSE <<key \o "=" \o value>>

(* C16: the tags AddMetric gives the entry of a ValueMetric or             *)
(* CounterEvent envelope are deployment=, job=, index= and ip= with the    *)
(* values of the envelope, in that order, without those whose value is     *)
(* empty: four tags for an envelope with the four fields, none for one     *)
(* with none of them.                                                      *)
C16_TagsInFixedOrderSkippingEmpty ==
    (call.op = "AddMetric" /\ call.env.eventType \in {"ValueMetric", "CounterEvent"}) =>
        LET e == call.env
            k == [eventType |-> e.eventType,
                  name |-> e.origin \o "."
                            \o (IF e.eventType = "ValueMetric"
                                THEN e.valueMetric.name ELSE e.counterEvent.name),
                  deployment |-> e.deployment, job |-> e.job, index |-> e.index,
                  ip |-> e.ip]
        IN  /\ k \in DOMAIN metricPoints
            /\ metricPoints[k].tags
                = TagOrNone("deployment", e.deployment) \o TagOrNone("job", e.job)
                    \o TagOrNone("index", e.index) \o TagOrNone("ip", e.ip)
            /\ \A i \in 1..Len(metricPoints[k].tags) :
                metricPoints[k].tags[i] \notin {"deployment=", "job=", "index=", "ip="}
            /\ e = E0 => metricPoints[k].tags
                            = <<"deployment=prod", "job=x", "index=0", "ip=1.2.3.4">>
            /\ e = EJob => metricPoints[k].tags
                            = <<"deployment=prod", "index=0", "ip=1.2.3.4">>
            /\ e = EJobIndex => metricPoints[k].tags = <<"deployment=prod", "ip=1.2.3.4">>
            /\ e = EJobIndexIp => metricPoints[k].tags = <<"deployment=prod">>
            /\ e = EBare => metricPoints[k].tags = <<>>

\* The envelope without deployment, job, index and ip was ingested after the
\* one with the four of them: an entry with four tags and one with none.
C16_Witness ==
    /\ call.op = "AddMetric"
    /\ call.env = EBare
    /\ metricPoints[Identity(EBare)].tags = <<>>
    /\ Identity(E0) \in DOMAIN metricPoints
    /\ Len(metricPoints[Identity(E0)].tags) = 4

\* The whole seconds of the timestamp t = t.s * 10^9 + t.ns (0 <= t.ns <
\* 10^9), the quotient of t by 10^9 rounded toward zero.
WholeSeconds(t) ==
    CASE t = [s |-> 0, ns |-> 0] -> 0
      [] t = [s |-> 0, ns |-> 1] -> 0
      [] t = [s |-> 0, ns |-> 999999999] -> 0
      [] t = [s |-> 1, ns |-> 0] -> 1
      [] t = [s |-> 1000, ns |-> 999999999] -> 1000
      [] t = [s |-> -1, ns |-> 999999999] -> 0
      [] t = [s |-> -1, ns |-> 0] -> -1
      [] t = [s |-> -2, ns |-> 1] -> -1

\* The decimal text of seconds * 10^9.
NanosecondText(seconds) ==
    CASE seconds = 0 -> "0"
      [] seconds = 1 -> "1000000000"
      [] seconds = 1000 -> "1000000000000"
      [] seconds = -1 -> "-1000000000"

(* C17: AddMetric stores for an envelope its timestamp in nanoseconds      *)
(* divided by 10^9 as integers, and the line of an entry ends with the     *)
(* seconds of its FIRST point times 10^9, whatever the later points. For a *)
(* first timestamp t >= 0 that is t - (t mod 10^9): the seconds t.s with   *)
(* nine zeros, at most t and less than a second below it.                  *)
C17_LineCarriesSecondsOfFirstPoint ==
    [][(call'.op = "PostMetrics" /\ Identity(E0) \in DOMAIN hist.window) =>
        LET envs == hist.window[Identity(E0)]
            points == metricPoints[Identity(E0)].points
            first == envs[1].timestamp
        IN  /\ Len(points) = Len(envs)
            /\ \A i \in 1..Len(envs) :
                /\ points[i].Timestamp = WholeSeconds(envs[i].timestamp)
                /\ envs[i].timestamp.s >= 0 =>
                    points[i].Timestamp = envs[i].timestamp.s
            /\ HasLine(call'.body,
                    "app.o.m,deployment=prod,job=x,index=0,ip=1.2.3.4 "
                        \o Joined([i \in 1..Len(envs) |-> "value=3.5"]) \o " "
                        \o NanosecondText(WholeSeconds(first)) \o "\n")
            /\ first.s > 0 =>
                HasLine(call'.body,
                    "app.o.m,deployment=prod,job=x,index=0,ip=1.2.3.4 "
                        \o Joined([i \in 1..Len(envs) |-> "value=3.5"]) \o " "
                        \o ToString(first.s) \o "000000000\n")]_vars

\* A failed flush of an entry whose first point is of 1000999999999 ns and
\* whose second point is of 1 ns: the line ends with 1000000000000.
C17_Witness ==
    /\ call.op = "PostMetrics"
    /\ call.err = "status"
    /\ Identity(E0) \in DOMAIN hist.window
    /\ Len(hist.window[Identity(E0)]) = 2
    /\ hist.window[Identity(E0)][1].timestamp = [s |-> 1000, ns |-> 999999999]
    /\ hist.window[Identity(E0)][2].timestamp = [s |-> 0, ns |-> 1]
    /\ HasLine(call.body,
        "app.o.m,deployment=prod,job=x,index=0,ip=1.2.3.4 value=3.5,value=3.5 1000000000000\n")

\* The number of records of the last call of PostMetrics that are counted
\* in totalMetricsSent.
CountedOfLastFlush == IF call.err = "nil" THEN call.count ELSE 0

(* C18: the request of every flush reports totalMessagesReceived with the  *)
(* number of calls of AddMetric made so far and totalMetricsSent with the  *)
(* counter as it was when the flush began, the records of the request      *)
(* itself not included: the first successful flush reports 0. In the map   *)
(* the two entries hold one point each, also after failed flushes, and     *)
(* after a failed flush that point holds the value reported.               *)
C18_CountersReportedAsOfFlushStart ==
    /\ \A n \in {"totalMessagesReceived", "totalMetricsSent"} :
        SelfKey(n) \in DOMAIN metricPoints => Len(metricPoints[SelfKey(n)].points) = 1
    /\ call.op = "PostMetrics" =>
        /\ totalMessagesReceived = hist.AddMetric
        /\ \E t \in Times :
            HasLine(call.body,
                    SelfLine("totalMessagesReceived", totalMessagesReceived, t))
        /\ \E t \in Times :
            HasLine(call.body,
                    SelfLine("totalMetricsSent",
                             totalMetricsSent - CountedOfLastFlush, t))
        /\ (call.err = "nil" /\ totalMetricsSent = call.count) =>
            \E t \in Times : HasLine(call.body, SelfLine("totalMetricsSent", 0, t))
        /\ call.err # "nil" =>
            /\ metricPoints[SelfKey("totalMessagesReceived")].points[1].Value
                = 2 * totalMessagesReceived
            /\ metricPoints[SelfKey("totalMetricsSent")].points[1].Value
                = 2 * totalMetricsSent

\* The second successful flush, made after two envelopes: it reported
\* totalMessagesReceived 2 and totalMetricsSent 4, the records of the first
\* flush, and brought the counter to 7.
C18_Witness ==
    /\ call.op = "PostMetrics"
    /\ call.err = "nil"
    /\ call.count = 3
    /\ totalMetricsSent = 7
    /\ \E t \in Times : HasLine(call.body, SelfLine("totalMetricsSent", 4, t))
    /\ \E t \in Times : HasLine(call.body, SelfLine("totalMessagesReceived", 2, t))

\* The keys of the internal metrics.
SelfKeys == {SelfKey(n) : n \in InternalNames}

(* C19: no call of AddMetric makes, removes or changes an entry under the  *)
(* key of an internal metric, also for envelopes that carry the name of an *)
(* internal metric with the deployment and the ip of the client: the keys  *)
(* it writes have the eventType ValueMetric or CounterEvent, and the keys  *)
(* of the zero eventType in the map are those of the internal metrics. A   *)
(* flush therefore reports slowConsumerAlert and the two counters as       *)
(* AlertSlowConsumerError and the counters make them, whatever was         *)
(* ingested.                                                               *)
C19_IngestedAndInternalKeysAreDisjoint ==
    /\ [](\A k \in DOMAIN metricPoints :
            /\ k.eventType = "EventType(0)" <=> k \in SelfKeys
            /\ k.eventType # "EventType(0)" =>
                k.eventType \in {"ValueMetric", "CounterEvent"})
    /\ [][call'.op = "AddMetric" =>
            /\ \A k \in SelfKeys :
                /\ k \in DOMAIN metricPoints' <=> k \in DOMAIN metricPoints
                /\ k \in DOMAIN metricPoints => metricPoints'[k] = metricPoints[k]
            /\ \A k \in DOMAIN metricPoints' :
                (k \notin DOMAIN metricPoints \/ metricPoints'[k] # metricPoints[k])
                    => k.eventType \in {"ValueMetric", "CounterEvent"}]_vars
    /\ [][call'.op = "PostMetrics" =>
            /\ \E t \in Times :
                HasLine(call'.body,
                        SelfLine("slowConsumerAlert", IF hist.alerted THEN 1 ELSE 0, t))
            /\ \E t \in Times :
                HasLine(call'.body, SelfLine("totalMetricsSent", totalMetricsSent, t))
            /\ \E t \in Times :
                HasLine(call'.body,
                        SelfLine("totalMessagesReceived", totalMessagesReceived, t))]_vars

\* After a failed flush that made the entry of slowConsumerAlert with the
\* default 0, a ValueMetric named slowConsumerAlert with the deployment and
\* the ip of the client was ingested: it is in an entry of its own and the
\* internal entry still holds 0.
C19_Witness ==
    /\ call.op = "AddMetric"
    /\ call.env = EAlert
    /\ SelfKey("slowConsumerAlert") \in DOMAIN metricPoints
    /\ metricPoints[SelfKey("slowConsumerAlert")].points[1].Value = 0
    /\ Identity(EAlert) \in DOMAIN metricPoints
    /\ Identity(EAlert).name = ".slowConsumerAlert"
    /\ [Identity(EAlert) EXCEPT !.eventType = "EventType(0)",
                                !.name = "slowConsumerAlert"]
        = SelfKey("slowConsumerAlert")

====
